---- MODULE Spec2Model ----
(***************************************************************************)
(* Hemisphere event check-in and lead capture.                             *)
(*                                                                         *)
(* The stores are flat JSON files that every request reads and rewrites    *)
(* as a whole.  A string is a sequence of characters, so that trimming,    *)
(* lower-casing, prefix tests and split(":") are computed as the code      *)
(* computes them.  Date.now() is the variable now; the decimal numeral of  *)
(* a number is one character of the string (ToString), which is sound      *)
(* because a numeral holds neither a colon nor a space.                    *)
(***************************************************************************)
EXTENDS Integers, Sequences, FiniteSets, TLC

VARIABLES
    now,        \* Date.now(), in milliseconds
    files,      \* per store file: "missing" or "ok"
    attendees,  \* data/attendees.json
    scanLog,    \* data/scanlogs.json
    leads,      \* data/leads.json
    tokens,     \* data/exhibitor_tokens.json
    issued,     \* the time of each call of crypto.randomUUID() so far, in order
    scanner,    \* ScannerPage state: scanState, message, lastMethod, isScanningEnabled
    admin,      \* AdminPage state: attendees, checkingInId, error
    calls,      \* the HTTP requests the latest handler run issued, with their status
    station,    \* scanner stations that run their handler step by step (SpecConc)
    response,   \* the answer to the latest request of a client that reads it
    reqs,       \* route handlers in flight, each with what it has read so far
    frames      \* ScannerPage's frame loops, where frames are modelled one by one
                \* (SpecFrames); elsewhere the loop is the guard of HandleScanResult

vars == <<now, files, attendees, scanLog, leads, tokens, issued, scanner, admin, calls, station,
         response, reqs, frames>>

----------------------------------------------------------------------------
(* Bounds of the model *)

MaxTime == 2
MaxAttendees == 2
MaxLog == 2
MaxLeads == 2
MaxTokens == 2
MaxHours == 2
MaxReqs == 3
MaxLoops == 2

----------------------------------------------------------------------------
(* Strings *)

HEMI == <<"h","e","m","i","s","p","h","e","r","e",":">>
HEMI_UPPER == <<"H","e","m","i","s","p","h","e","r","e",":">>

\* String.prototype.toLowerCase, on the alphabet of the model
LowerChar(c) ==
    CASE c = "A" -> "a"
      [] c = "B" -> "b"
      [] c = "H" -> "h"
      [] c = "X" -> "x"
      [] OTHER -> c

Lower(s) == [i \in 1..Len(s) |-> LowerChar(s[i])]

RECURSIVE TrimLeft(_)
TrimLeft(s) == IF s # <<>> /\ Head(s) = " " THEN TrimLeft(Tail(s)) ELSE s

RECURSIVE TrimRight(_)
TrimRight(s) ==
    IF s # <<>> /\ s[Len(s)] = " " THEN TrimRight(SubSeq(s, 1, Len(s) - 1)) ELSE s

\* String.prototype.trim
Trim(s) == TrimRight(TrimLeft(s))

\* String.prototype.startsWith
StartsWith(s, p) == Len(s) >= Len(p) /\ SubSeq(s, 1, Len(p)) = p

\* String.prototype.includes
Includes(s, t) == \E i \in 0..(Len(s) - Len(t)) : SubSeq(s, i + 1, i + Len(t)) = t

\* s.split(":").pop(): the text after the last colon, the whole string without one
SplitPop(s) ==
    LET colons == {i \in 1..Len(s) : s[i] = ":"}
        last == IF colons = {} THEN 0 ELSE CHOOSE i \in colons : \A j \in colons : j <= i
    IN SubSeq(s, last + 1, Len(s))

\* String(Date.now())
NumStr(n) == <<ToString(n)>>

----------------------------------------------------------------------------
(* Records *)

NoTime == 0          \* an absent checkedInAt
NoAttendee == [id |-> <<>>, firstName |-> <<>>, lastName |-> <<>>, email |-> <<>>,
               createdAt |-> NoTime, checkedIn |-> FALSE, checkedInAt |-> NoTime]

\* One HTTP exchange: endpoint, caller, the checkedIn of a check-in body, the method
\* of a scan-log body, and the status of the answer.
Call(ep, caller, ci, method, status) ==
    [ep |-> ep, caller |-> caller, checkedIn |-> ci, method |-> method,
     status |-> status]

\* attendees.findIndex(a => String(a.id) === String(id)), 1-based; 0 stands for -1
\* NextResponse.json(body, {status}): what a client reads of an answer
Response(ep, request, status, error, body, email) ==
    [ep |-> ep, request |-> request, status |-> status, error |-> error, body |-> body,
     email |-> email]

NoResponse == Response("", <<>>, 0, "", <<>>, <<>>)

FindIndex(s, id) ==
    LET hits == {i \in 1..Len(s) : s[i].id = id}
    IN IF hits = {} THEN 0 ELSE CHOOSE i \in hits : \A j \in hits : i <= j

----------------------------------------------------------------------------
(* POST /api/register *)

\* String(email).trim().toLowerCase()
NormalizeEmailNoTrim(email) == Lower(email)
NormalizeEmail(email) == Lower(Trim(email))

\* readAttendees: a missing file reads as the empty array; a file that does not parse
\* throws, which the handler answers with 500
ReadAttendees(atts, file) == IF file = "missing" THEN <<>> ELSE atts

\* attendees.find(a => String(a.email || "").trim().toLowerCase() === normalizedEmail)
HasDuplicateNever(list, normalizedEmail) == FALSE
HasDuplicate(list, normalizedEmail) ==
    \E i \in 1..Len(list) : Lower(Trim(list[i].email)) = normalizedEmail

\* const id = String(Date.now()); the new record has no checkedIn field yet
NewAttendee(firstName, lastName, normalizedEmail, t) ==
    [id |-> NumStr(t), firstName |-> firstName, lastName |-> lastName,
     email |-> normalizedEmail, createdAt |-> t,
     checkedIn |-> FALSE, checkedInAt |-> NoTime]

\* attendees.push(newAttendee)
PushAttendeeReplacing(list, a) == <<a>>
PushAttendee(list, a) == Append(list, a)

\* qrValue = `hemisphere:${id}`
QrValue(id) == HEMI \o id

RegisterPost(atts, file, firstName, lastName, email, t) ==
    IF firstName = <<>> \/ lastName = <<>> \/ email = <<>>
    THEN [status |-> 400, attendees |-> atts, file |-> file, qrValue |-> <<>>]
    ELSE IF file = "corrupt"
    THEN [status |-> 500, attendees |-> atts, file |-> file, qrValue |-> <<>>]
    ELSE LET list == ReadAttendees(atts, file)
             normalizedEmail == NormalizeEmail(email)
             newAttendee == NewAttendee(firstName, lastName, normalizedEmail, t)
         IN IF HasDuplicate(list, normalizedEmail)
            THEN [status |-> 409, attendees |-> atts, file |-> file, qrValue |-> <<>>]
            ELSE [status |-> 201,
                  attendees |-> PushAttendee(list, newAttendee),
                  file |-> "ok",
                  qrValue |-> QrValue(newAttendee.id)]

----------------------------------------------------------------------------
(* POST /api/checkin *)

\* the two branches on checkedIn: stamp the time, or clear it
ApplyCheckinKeepStamp(a, checkedIn, t) ==
    IF checkedIn
    THEN [a EXCEPT !.checkedIn = TRUE, !.checkedInAt = t]
    ELSE [a EXCEPT !.checkedIn = FALSE]
ApplyCheckin(a, checkedIn, t) ==
    IF checkedIn
    THEN [a EXCEPT !.checkedIn = TRUE, !.checkedInAt = t]
    ELSE [a EXCEPT !.checkedIn = FALSE, !.checkedInAt = NoTime]

CheckinPost(atts, file, id, checkedIn, t) ==
    IF file # "ok"
    THEN [status |-> 500, attendees |-> atts, attendee |-> NoAttendee]
    ELSE LET index == FindIndex(atts, id)
         IN IF index = 0
            THEN [status |-> 404, attendees |-> atts, attendee |-> NoAttendee]
            ELSE LET a == ApplyCheckin(atts[index], checkedIn, t)
                 IN [status |-> 200,
                     attendees |-> [atts EXCEPT ![index] = a],
                     attendee |-> a]

----------------------------------------------------------------------------
(* GET /api/attendees and GET /api/attendees/[id] *)

\* [...attendees].sort((a, b) => new Date(b.createdAt) - new Date(a.createdAt)):
\* newest first, and stable, so equal createdAt keep their file order
SortNewestFirst(list) ==
    LET RECURSIVE Go(_)
        Go(T) == IF T = {} THEN <<>>
                 ELSE LET m == CHOOSE x \in T : \A y \in T : y <= x
                      IN SelectSeq(list, LAMBDA a : a.createdAt = m) \o Go(T \ {m})
    IN Go({list[i].createdAt : i \in 1..Len(list)})

AttendeesGet(atts, file) ==
    IF file = "missing" THEN [status |-> 200, body |-> <<>>]
    ELSE IF file = "corrupt" THEN [status |-> 500, body |-> <<>>]
    ELSE [status |-> 200, body |-> SortNewestFirst(atts)]

AttendeeGetById(atts, file, rawId) ==
    LET id == SplitPop(rawId)
    IN IF file # "ok" THEN [status |-> 500, attendee |-> NoAttendee]
       ELSE LET index == FindIndex(atts, id)
            IN IF index = 0 THEN [status |-> 404, attendee |-> NoAttendee]
               ELSE [status |-> 200, attendee |-> atts[index]]

\* PATCH /api/attendees/[id]: the payload's own firstName, lastName and email replace
\* the record's (company and eventId are not fields of the model's records)
PatchFields == {"firstName", "lastName", "email"}

ApplyPatchAnyField(current, payload) ==
    [f \in DOMAIN current |-> IF f \in DOMAIN payload THEN payload[f] ELSE current[f]]
ApplyPatch(current, payload) ==
    [f \in DOMAIN current |->
        IF f \in PatchFields /\ f \in DOMAIN payload THEN payload[f] ELSE current[f]]

AttendeePatch(atts, file, rawId, payload) ==
    IF file # "ok"
    THEN [status |-> 500, attendees |-> atts, attendee |-> NoAttendee]
    ELSE LET index == FindIndex(atts, SplitPop(rawId))
         IN IF index = 0
            THEN [status |-> 404, attendees |-> atts, attendee |-> NoAttendee]
            ELSE LET updated == ApplyPatch(atts[index], payload)
                 IN [status |-> 200,
                     attendees |-> [atts EXCEPT ![index] = updated],
                     attendee |-> updated]

----------------------------------------------------------------------------
(* POST /api/scanlog *)

NewLog(attendeeId, attendeeName, attendeeEmail, method, t) ==
    [id |-> t, attendeeId |-> attendeeId, attendeeName |-> attendeeName,
     attendeeEmail |-> attendeeEmail, method |-> method, timestamp |-> t]

\* the file is read without a fallback: a missing file is a 500
ScanlogPost(logs, file, attendeeId, attendeeName, attendeeEmail, method, t) ==
    IF file # "ok" THEN [status |-> 500, logs |-> logs]
    ELSE [status |-> 200,
          logs |-> Append(logs, NewLog(attendeeId, attendeeName, attendeeEmail, method, t))]

\* GET /api/scanlog: the same read without a fallback
ScanlogGet(logs, file) ==
    IF file # "ok" THEN [status |-> 500, body |-> <<>>]
    ELSE [status |-> 200, body |-> logs]

\* GET /api/scanlog/export: a file that cannot be read is "[]", a text that does not parse
\* is []; the CSV is its header line and one line per entry
CsvHeaders == <<"id", "attendeeId", "attendeeName", "attendeeEmail", "timestamp">>

\* Array.prototype.join
Join(parts, sep) ==
    LET RECURSIVE Go(_)
        Go(k) == IF k > Len(parts) THEN <<>> ELSE <<sep>> \o parts[k] \o Go(k + 1)
    IN IF parts = <<>> THEN <<>> ELSE parts[1] \o Go(2)

\* str.replace(/"/g, '""')
CsvEscapeNone(str) == str
CsvEscape(str) ==
    LET RECURSIVE Go(_)
        Go(k) == IF k > Len(str) THEN <<>>
                 ELSE (IF str[k] = "\"" THEN <<"\"", "\"">> ELSE <<str[k]>>) \o Go(k + 1)
    IN Go(1)

\* the five cells of a row: String(value) with its quotes doubled, between two quotes
CsvRow(log) ==
    LET values == <<NumStr(log.id), log.attendeeId, log.attendeeName, log.attendeeEmail,
                    NumStr(log.timestamp)>>
    IN [j \in 1..Len(values) |-> <<"\"">> \o CsvEscape(values[j]) \o <<"\"">>]

ScanlogExportGet(logs, file) ==
    LET parsed == IF file = "ok" THEN logs ELSE <<>>
        lines == <<Join([j \in 1..Len(CsvHeaders) |-> <<CsvHeaders[j]>>], ",")>>
                 \o [i \in 1..Len(parsed) |-> Join(CsvRow(parsed[i]), ",")]
    IN [status |-> 200, body |-> Join(lines, "\n")]

\* GET /api/events: a missing file is [], a file that does not parse is a 500
EventsGet(evts, file) ==
    IF file = "missing" THEN [status |-> 200, body |-> <<>>]
    ELSE IF file = "corrupt" THEN [status |-> 500, body |-> <<>>]
    ELSE [status |-> 200, body |-> evts]

----------------------------------------------------------------------------
(* POST /api/exhibitors/request-link and the token check of the exhibitor portal *)

\* 60 * 60 * 1000: a login link is valid for one hour
TokenTTL == 60 * 60 * 1000

\* new Date(ms).toISOString(): "...:ss.mmmZ", the whole seconds and the milliseconds
ToISOString(ms) == [seconds |-> ms \div 1000, millis |-> ms % 1000]

\* new Date(iso).getTime()
DateGetTime(iso) == iso.seconds * 1000 + iso.millis

\* readTokens: a missing file reads as the empty array
ReadTokens(toks, file) == IF file = "missing" THEN <<>> ELSE toks

\* tokens.filter(t => new Date(t.expiresAt).getTime() > now)
ValidTokensAtExpiry(toks, t) == SelectSeq(toks, LAMBDA r : DateGetTime(r.expiresAt) >= t)
ValidTokens(toks, t) == SelectSeq(toks, LAMBDA r : DateGetTime(r.expiresAt) > t)

RequestLinkPost(toks, file, email, t, uuid) ==
    LET normalizedEmail == Lower(Trim(email))
    IN IF normalizedEmail = <<>>
       THEN [status |-> 400, tokens |-> toks, file |-> file]
       ELSE IF file = "corrupt"
       THEN [status |-> 500, tokens |-> toks, file |-> file]
       ELSE [status |-> 200,
             tokens |-> Append(ValidTokens(ReadTokens(toks, file), t),
                               [email |-> normalizedEmail, token |-> uuid,
                                expiresAt |-> ToISOString(t + TokenTTL)]),
             file |-> "ok"]

\* records.find(t => t.token === token && new Date(t.expiresAt).getTime() > now)
IsTokenValidForever(token, records, t) ==
    \E i \in 1..Len(records) : records[i].token = token
IsTokenValidAtExpiry(token, records, t) ==
    \E i \in 1..Len(records) :
        records[i].token = token /\ DateGetTime(records[i].expiresAt) >= t
IsTokenValid(token, records, t) ==
    \E i \in 1..Len(records) :
        records[i].token = token /\ DateGetTime(records[i].expiresAt) > t

----------------------------------------------------------------------------
(* GET /api/exhibitors/leads *)

BEARER == <<"b", "e", "a", "r", "e", "r", " ">>

\* auth.split(" ")[1]: the text between the first space and the next one
SplitSecond(s) ==
    LET spaces == {i \in 1..Len(s) : s[i] = " "}
        first == CHOOSE i \in spaces : \A j \in spaces : i <= j
        later == {i \in spaces : i > first}
        next == IF later = {} THEN Len(s) + 1
                ELSE CHOOSE i \in later : \A j \in later : i <= j
    IN IF spaces = {} THEN <<>> ELSE SubSeq(s, first + 1, next - 1)

\* auth.toLowerCase().startsWith("bearer ") ? auth.split(" ")[1] : "".  A uuid is one
\* character of the header, as a numeral is of a payload; the token is that character.
BearerToken(auth) ==
    LET word == IF StartsWith(Lower(auth), BEARER) THEN SplitSecond(auth) ELSE <<>>
    IN IF word = <<>> THEN "" ELSE word[1]

\* the row the portal is sent for a stored lead
NormalizedLead(l) ==
    [id |-> l.id, attendeeId |-> l.attendeeId, attendeeName |-> <<>>,
     attendeeEmail |-> <<>>, exhibitor |-> l.exhibitor, notes |-> l.notes,
     timestamp |-> l.timestamp, eventId |-> l.eventId]

\* readLeads of this route: a missing file reads as the empty array
ReadLeads(lds, file) == IF file = "missing" THEN <<>> ELSE lds

ExhibitorLeadsGet(toks, tokensFile, lds, leadsFile, auth, t) ==
    LET token == BearerToken(auth)
        records == ReadTokens(toks, tokensFile)
        hits == {i \in 1..Len(records) : IsTokenValid(token, <<records[i]>>, t)}
        valid == records[CHOOSE i \in hits : \A j \in hits : i <= j]
        all == ReadLeads(lds, leadsFile)
        ep == "GET /exhibitors/leads"
    IN IF token = ""
       THEN Response(ep, auth, 401, "Missing token", <<>>, <<>>)
       ELSE IF tokensFile = "corrupt"
       THEN Response(ep, auth, 500, "Error fetching leads", <<>>, <<>>)
       ELSE IF ~IsTokenValid(token, records, t)
       THEN Response(ep, auth, 401, "Invalid or expired token", <<>>, <<>>)
       ELSE IF leadsFile = "corrupt"
       THEN Response(ep, auth, 500, "Error fetching leads", <<>>, <<>>)
       ELSE Response(ep, auth, 200, "", [i \in 1..Len(all) |-> NormalizedLead(all[i])],
                     valid.email)

----------------------------------------------------------------------------
(* POST /api/leads *)

\* readLeadsFile: any failure to read is the empty array
ReadLeadsFile(lds, file) == IF file = "ok" THEN lds ELSE <<>>

\* GET /api/leads
LeadsGet(lds, file) == [status |-> 200, body |-> ReadLeadsFile(lds, file)]

NewLead(attendeeId, exhibitor, t) ==
    [id |-> t, eventId |-> "unknown_event", attendeeId |-> attendeeId,
     exhibitor |-> IF exhibitor = <<>> THEN <<"Unknown Exhibitor">> ELSE exhibitor,
     notes |-> <<>>, timestamp |-> t]

\* The handler reads the body only: no header of the request, so no token, is looked at.
LeadsPostOncePerAttendee(lds, file, token, attendeeId, exhibitor, t) ==
    LET list == ReadLeadsFile(lds, file)
        lead == NewLead(attendeeId, exhibitor, t)
        seen == \E i \in 1..Len(list) :
                   list[i].attendeeId = attendeeId /\ list[i].exhibitor = lead.exhibitor
    IN [status |-> 201, leads |-> IF seen THEN list ELSE Append(list, lead), file |-> "ok"]
LeadsPost(lds, file, token, attendeeId, exhibitor, t) ==
    [status |-> 201,
     leads |-> Append(ReadLeadsFile(lds, file), NewLead(attendeeId, exhibitor, t)),
     file |-> "ok"]

----------------------------------------------------------------------------
(* Inputs *)

Times == 1..MaxTime

Registration(firstName, lastName, email) ==
    [firstName |-> firstName, lastName |-> lastName, email |-> email]

\* request bodies: one person under two spellings of an email, a second person, and
\* one body for each required field left empty
Registrations ==
    {Registration(<<"A">>, <<"B">>, <<"a">>), Registration(<<"A">>, <<"B">>, <<" ", "A">>),
     Registration(<<"a", "b">>, <<"B">>, <<"b">>)}
    \cup {Registration(<<>>, <<"B">>, <<"a">>), Registration(<<"A">>, <<>>, <<"a">>),
          Registration(<<"A">>, <<"B">>, <<>>)}

\* what a camera can read: the badge payload of every id, other spellings of one of
\* them, and codes that carry no id
Payloads ==
    {QrValue(NumStr(t)) : t \in Times}
    \cup {HEMI_UPPER \o NumStr(1), NumStr(1), <<" ">> \o QrValue(NumStr(1)) \o <<" ">>,
          <<"x", ":">> \o NumStr(1)}
    \cup {<<>>, HEMI, <<"x">>}

\* what an operator can type into the manual box
Terms == {<<"a">>, <<"A", " ", "b">>, <<"a", "b">>, <<" ", "B">>, <<"x">>, <<" ">>}

----------------------------------------------------------------------------
(* ScannerPage: handleScanResult, handleManualCheckin, handleScanAgain *)

ATTENDEE_WORD == <<"Attendee">>

\* found.name || `${firstName} ${lastName}`.trim() || "Attendee"
DisplayName(a) ==
    LET full == Trim(a.firstName \o <<" ">> \o a.lastName)
    IN IF full # <<>> THEN full ELSE ATTENDEE_WORD

\* the id a scanned payload is looked up under
ScanId(raw) ==
    LET trimmed == Trim(raw)
        normalized == IF StartsWith(Lower(trimmed), HEMI) THEN trimmed
                      ELSE HEMI \o trimmed
    IN SplitPop(normalized)

\* GET /api/attendees/<id>, and on any failure the full list searched by id
ScanLookupAnyone(atts, file, id) ==
    LET all == AttendeesGet(atts, file)
    IN [found |-> all.body # <<>>,
        attendee |-> IF all.body = <<>> THEN NoAttendee ELSE all.body[1],
        calls |-> <<Call("GET /attendees", "scan", FALSE, "", all.status)>>]
ScanLookup(atts, file, id) ==
    LET single == AttendeeGetById(atts, file, id)
        first == Call("GET /attendees/id", "scan", FALSE, "", single.status)
    IN IF single.status = 200
       THEN [found |-> TRUE, attendee |-> single.attendee, calls |-> <<first>>]
       ELSE LET all == AttendeesGet(atts, file)
                index == FindIndex(all.body, id)
                second == Call("GET /attendees", "scan", FALSE, "", all.status)
            IN [found |-> index # 0,
                attendee |-> IF index = 0 THEN NoAttendee ELSE all.body[index],
                calls |-> <<first, second>>]

\* list.find(a => fullName.includes(lower)) over GET /api/attendees
ManualMatches(a, term) ==
    Includes(Lower(Trim(a.firstName \o <<" ">> \o a.lastName)), Lower(term))

ManualLookup(atts, file, term) ==
    LET all == AttendeesGet(atts, file)
        hits == {i \in 1..Len(all.body) : ManualMatches(all.body[i], term)}
        index == IF hits = {} THEN 0 ELSE CHOOSE i \in hits : \A j \in hits : i <= j
    IN [ok |-> all.status = 200,
        found |-> index # 0,
        attendee |-> IF index = 0 THEN NoAttendee ELSE all.body[index],
        calls |-> <<Call("GET /attendees", "manual", FALSE, "", all.status)>>]

ScannerView(scanState, message, lastMethod, enabled) ==
    [scanState |-> scanState, message |-> message, lastMethod |-> lastMethod,
     isScanningEnabled |-> enabled]

\* The tail both handlers share once an attendee is resolved: the already-checked-in
\* branch logs the attempt; the first-time branch posts the check-in, then logs it.
\* Neither looks at the status of its POSTs.
ResolvedSkipLogOnRepeat(found, id, method, lookupCalls) ==
    LET name == DisplayName(found)
        log == ScanlogPost(scanLog, files.scanlog, found.id, name, found.email, method, now)
        logCall == Call("POST /scanlog", method, FALSE, method, log.status)
    IN IF found.checkedIn
       THEN /\ scanner' = ScannerView("found", "already", method, FALSE)
            /\ calls' = lookupCalls
            /\ UNCHANGED <<attendees, files, scanLog>>
       ELSE LET chk == CheckinPost(attendees, files.attendees, id, TRUE, now)
            IN /\ attendees' = chk.attendees
               /\ scanLog' = log.logs
               /\ scanner' = ScannerView("found", "checkedIn", method, FALSE)
               /\ calls' = lookupCalls \o
                      <<Call("POST /checkin", method, TRUE, "", chk.status), logCall>>
               /\ UNCHANGED files

Resolved(found, id, method, lookupCalls) ==
    LET name == DisplayName(found)
        log == ScanlogPost(scanLog, files.scanlog, found.id, name, found.email, method, now)
        logCall == Call("POST /scanlog", method, FALSE, method, log.status)
    IN IF found.checkedIn
       THEN /\ scanLog' = log.logs
            /\ scanner' = ScannerView("found", "already", method, FALSE)
            /\ calls' = lookupCalls \o <<logCall>>
            /\ UNCHANGED <<attendees, files>>
       ELSE LET chk == CheckinPost(attendees, files.attendees, id, TRUE, now)
            IN /\ attendees' = chk.attendees
               /\ scanLog' = log.logs
               /\ scanner' = ScannerView("found", "checkedIn", method, FALSE)
               /\ calls' = lookupCalls \o
                      <<Call("POST /checkin", method, TRUE, "", chk.status), logCall>>
               /\ UNCHANGED files

\* async function handleScanResult(raw), whoever calls it
ScanResult(raw) ==
    /\ Len(scanLog) < MaxLog
    /\ LET id == ScanId(raw)
           look == ScanLookup(attendees, files.attendees, id)
       IN IF id = <<>>
          THEN /\ scanner' = ScannerView("error", "noId", "scan", FALSE)
               /\ calls' = <<>>
               /\ UNCHANGED <<attendees, files, scanLog>>
          ELSE IF ~look.found
          THEN /\ scanner' = ScannerView("error", "notFound", "scan", FALSE)
               /\ calls' = look.calls
               /\ UNCHANGED <<attendees, files, scanLog>>
          ELSE Resolved(look.attendee, id, "scan", look.calls)
    /\ UNCHANGED <<response, reqs>>
    /\ UNCHANGED <<now, leads, tokens, issued, admin, station>>

\* The frame loop hands a payload over only while scanning is enabled.
HandleScanResult(raw) ==
    /\ scanner.isScanningEnabled
    /\ ScanResult(raw)
    /\ UNCHANGED frames

HandleManualCheckin(manualName) ==
    /\ Len(scanLog) < MaxLog
    /\ LET term == Trim(manualName)
           look == ManualLookup(attendees, files.attendees, term)
       IN IF term = <<>>
          THEN /\ scanner' = [scanner EXCEPT !.message = "typeName"]
               /\ calls' = <<>>
               /\ UNCHANGED <<attendees, files, scanLog>>
          ELSE IF ~look.ok
          THEN /\ scanner' = ScannerView("error", "loadFailed", "manual", FALSE)
               /\ calls' = look.calls
               /\ UNCHANGED <<attendees, files, scanLog>>
          ELSE IF ~look.found
          THEN /\ scanner' = ScannerView("error", "notFound", "manual", FALSE)
               /\ calls' = look.calls
               /\ UNCHANGED <<attendees, files, scanLog>>
          ELSE Resolved(look.attendee, look.attendee.id, "manual", look.calls)
    /\ UNCHANGED <<response, reqs, frames>>
    /\ UNCHANGED <<now, leads, tokens, issued, admin, station>>

HandleScanAgain ==
    /\ ~scanner.isScanningEnabled
    /\ scanner' = ScannerView("scanning", "point", scanner.lastMethod, TRUE)
    /\ UNCHANGED <<response, reqs, frames>>
    /\ UNCHANGED <<now, files, attendees, scanLog, leads, tokens, issued, admin, calls,
                   station>>

----------------------------------------------------------------------------
(* ScannerPage's useEffect on [isScanningEnabled]: a run of the effect starts one    *)
(* scanFrame loop; its cleanup cancels the animation frame that is pending.  A loop  *)
(* is either waiting for its next frame ("frame") or awaiting detector.detect on a   *)
(* canvas it drew, without a code ("detect") or with one ("code").  A loop that      *)
(* was awaiting detect when its effect was cleaned up is not cancelled; it goes on   *)
(* as a stale loop, since the isScanningEnabled its closure reads stays true.        *)

NoStale == [frame |-> 0, detect |-> 0, code |-> 0]

\* the loop of the effect's latest run; the stale loops by position; whether a code was
\* handed to handleScanResult since scanning was last armed
FrameLoops(live, stale, handed) == [live |-> live, stale |-> stale, handed |-> handed]

StaleLoops(f) == f.stale.frame + f.stale.detect + f.stale.code

\* the cleanup of the effect: cancelAnimationFrame(animationFrameId)
Cleanup(f) ==
    IF f.live \in {"none", "frame"} THEN [f EXCEPT !.live = "none"]
    ELSE [f EXCEPT !.live = "none", !.stale[f.live] = @ + 1]

\* the position of loop who ("live" or "stale") moves from pc to next
Moved(f, who, pc, next) ==
    IF who = "live" THEN [f EXCEPT !.live = next]
    ELSE [f EXCEPT !.stale[pc] = @ - 1, !.stale[next] = @ + 1]

At(f, who, pc) == IF who = "live" THEN f.live = pc ELSE f.stale[pc] > 0

\* scanFrame up to its await: ctx.drawImage(video, ...); detector.detect(canvas).  A
\* badge can be in the picture only while a camera stream is attached to the video.
DrawFrame(who, sees) ==
    /\ At(frames, who, "frame")
    /\ sees => scanner.isScanningEnabled
    /\ frames' = Moved(frames, who, "frame", IF sees THEN "code" ELSE "detect")
    /\ UNCHANGED <<now, files, attendees, scanLog, leads, tokens, issued, scanner, admin,
                   calls, station, response, reqs>>

\* barcodes.length = 0: animationFrameId = requestAnimationFrame(scanFrame)
DetectNothing(who) ==
    /\ At(frames, who, "detect")
    /\ frames' = Moved(frames, who, "detect", "frame")
    /\ UNCHANGED <<now, files, attendees, scanLog, leads, tokens, issued, scanner, admin,
                   calls, station, response, reqs>>

\* barcodes.length > 0: await handleScanResult(raw); return.  The handler sets
\* isScanningEnabled to false, so the effect of the latest run is cleaned up.
DetectCode(who, raw) ==
    /\ At(frames, who, "code")
    /\ ScanResult(raw)
    /\ LET ended == IF who = "live" THEN [frames EXCEPT !.live = "none"]
                    ELSE [frames EXCEPT !.stale.code = @ - 1]
       IN /\ StaleLoops(Cleanup(ended)) < MaxLoops
          /\ frames' = [Cleanup(ended) EXCEPT !.handed = TRUE]

\* the Pause Scanner button: setIsScanningEnabled(v => !v) while it is true
PauseScanner ==
    /\ scanner.isScanningEnabled
    /\ StaleLoops(Cleanup(frames)) < MaxLoops
    /\ scanner' = [scanner EXCEPT !.isScanningEnabled = FALSE]
    /\ frames' = Cleanup(frames)
    /\ UNCHANGED <<now, files, attendees, scanLog, leads, tokens, issued, admin, calls,
                   station, response, reqs>>

\* scanning is armed again, by handleScanAgain or by the Resume Scanner button: the
\* effect runs and starts a loop
ArmScanner(again) ==
    /\ ~scanner.isScanningEnabled
    /\ scanner' = IF again THEN ScannerView("scanning", "point", scanner.lastMethod, TRUE)
                  ELSE [scanner EXCEPT !.isScanningEnabled = TRUE]
    /\ frames' = FrameLoops("frame", frames.stale, FALSE)
    /\ UNCHANGED <<now, files, attendees, scanLog, leads, tokens, issued, admin, calls,
                   station, response, reqs>>

----------------------------------------------------------------------------
(* AdminPage: loadAttendees and handleCheckStatus *)

LoadAttendees ==
    /\ LET all == AttendeesGet(attendees, files.attendees)
       IN /\ admin' = IF all.status = 200
                      THEN [admin EXCEPT !.attendees = all.body, !.error = ""]
                      ELSE [admin EXCEPT !.error = "load"]
          /\ calls' = <<Call("GET /attendees", "admin", FALSE, "", all.status)>>
    /\ UNCHANGED <<response, reqs, frames>>
    /\ UNCHANGED <<now, files, attendees, scanLog, leads, tokens, issued, scanner, station>>

\* The optimistic update: prev.map(a => a.id === id ? { ...a, checkedIn, checkedInAt:
\* checkedIn ? new Date().toISOString() : undefined } : a)
OptimisticRows(rows, id, checkedIn, t) ==
    [k \in 1..Len(rows) |->
        IF rows[k].id = id
        THEN [rows[k] EXCEPT !.checkedIn = checkedIn,
                             !.checkedInAt = IF checkedIn THEN t ELSE NoTime]
        ELSE rows[k]]

\* prev.map(a => a.id === id ? { ...a, ...data.attendee } : a): the answer's fields
\* replace the row's; an answer without checkedInAt leaves the row's in place
ReconcileKeepRow(rows, id, attendee) == rows
Reconcile(rows, id, attendee) ==
    [k \in 1..Len(rows) |->
        IF rows[k].id = id
        THEN [attendee EXCEPT !.checkedInAt = IF attendee.checkedInAt = NoTime
                                              THEN rows[k].checkedInAt
                                              ELSE attendee.checkedInAt]
        ELSE rows[k]]

\* The row of the table shows "Check In" when it is not checked, "Undo" when it is:
\* the click posts the opposite of what the row shows.  The optimistic update is what
\* the answer is merged into, and what stays on screen when the request and the reload
\* both fail.
HandleCheckStatus(i) ==
    /\ i \in 1..Len(admin.attendees)
    /\ LET id == admin.attendees[i].id
           checkedIn == ~admin.attendees[i].checkedIn
           optimistic == OptimisticRows(admin.attendees, id, checkedIn, now)
           res == CheckinPost(attendees, files.attendees, id, checkedIn, now)
           post == Call("POST /checkin", "checkStatus", checkedIn, "", res.status)
           all == AttendeesGet(attendees, files.attendees)
       IN /\ attendees' = res.attendees
          /\ IF res.status = 200
             THEN /\ admin' = [attendees |-> Reconcile(optimistic, id, res.attendee),
                               checkingInId |-> <<>>, error |-> ""]
                  /\ calls' = <<post>>
             ELSE /\ admin' = [attendees |-> IF all.status = 200 THEN all.body
                                             ELSE optimistic,
                               checkingInId |-> <<>>, error |-> "checkin"]
                  /\ calls' = <<post, Call("GET /attendees", "admin", FALSE, "", all.status)>>
    /\ UNCHANGED <<response, reqs, frames>>
    /\ UNCHANGED <<now, files, scanLog, leads, tokens, issued, scanner, station>>

----------------------------------------------------------------------------
(* The registration page posting to /api/register, and the clock *)

Register(firstName, lastName, email) ==
    /\ LET r == RegisterPost(attendees, files.attendees, firstName, lastName, email, now)
       IN /\ Len(r.attendees) <= MaxAttendees
          /\ attendees' = r.attendees
          /\ files' = [files EXCEPT !.attendees = r.file]
          /\ calls' = <<Call("POST /register", "register", FALSE, "", r.status)>>
    /\ UNCHANGED <<response, reqs, frames>>
    /\ UNCHANGED <<now, scanLog, leads, tokens, issued, scanner, admin, station>>

Tick ==
    /\ now < MaxTime
    /\ now' = now + 1
    /\ UNCHANGED <<response, reqs, frames>>
    /\ UNCHANGED <<files, attendees, scanLog, leads, tokens, issued, scanner, admin, calls,
                   station>>

----------------------------------------------------------------------------
(* Any HTTP client posting to /api/checkin *)

ApiCheckin(id, checkedIn) ==
    /\ LET res == CheckinPost(attendees, files.attendees, id, checkedIn, now)
       IN /\ attendees' = res.attendees
          /\ calls' = <<Call("POST /checkin", "api", checkedIn, "", res.status)>>
    /\ UNCHANGED <<response, reqs, frames>>
    /\ UNCHANGED <<now, files, scanLog, leads, tokens, issued, scanner, admin, station>>

----------------------------------------------------------------------------
(* The exhibitor portal asking for a login link; a client capturing a lead; an hour
   going by *)

\* crypto.randomUUID(): a token never produced before
Uuid(n) == ToString(n)

RequestLink(email) ==
    /\ Len(issued) < MaxTokens
    /\ LET r == RequestLinkPost(tokens, files.tokens, email, now, Uuid(Len(issued) + 1))
       IN /\ tokens' = r.tokens
          /\ files' = [files EXCEPT !.tokens = r.file]
          /\ issued' = IF r.status = 200 THEN Append(issued, now) ELSE issued
          /\ calls' = <<Call("POST /exhibitors/request-link", "portal", FALSE, "", r.status)>>
    /\ UNCHANGED <<response, reqs, frames>>
    /\ UNCHANGED <<now, attendees, scanLog, leads, scanner, admin, station>>

CaptureLead(token, attendeeId, exhibitor) ==
    /\ Len(leads) < MaxLeads
    /\ LET r == LeadsPost(leads, files.leads, token, attendeeId, exhibitor, now)
       IN /\ leads' = r.leads
          /\ files' = [files EXCEPT !.leads = r.file]
          /\ calls' = <<Call("POST /leads", "exhibitor", FALSE, "", r.status)>>
    /\ UNCHANGED <<response, reqs, frames>>
    /\ UNCHANGED <<now, attendees, scanLog, tokens, issued, scanner, admin, station>>

\* A client of GET /api/exhibitors/leads with an Authorization header
GetExhibitorLeadsSingleUse(auth) ==
    /\ response' = ExhibitorLeadsGet(tokens, files.tokens, leads, files.leads, auth, now)
    /\ calls' = <<Call("GET /exhibitors/leads", "exhibitor", FALSE, "", response'.status)>>
    /\ tokens' = SelectSeq(tokens, LAMBDA r : r.token # BearerToken(auth))
    /\ UNCHANGED <<now, files, attendees, scanLog, leads, issued, scanner, admin, station,
                   reqs, frames>>
GetExhibitorLeads(auth) ==
    /\ response' = ExhibitorLeadsGet(tokens, files.tokens, leads, files.leads, auth, now)
    /\ calls' = <<Call("GET /exhibitors/leads", "exhibitor", FALSE, "", response'.status)>>
    /\ UNCHANGED <<now, files, attendees, scanLog, leads, tokens, issued, scanner, admin,
                   station, reqs, frames>>

\* Time going by between two requests: a millisecond, an hour less a millisecond, an hour
Waits == {1, TokenTTL - 1, TokenTTL}

Wait(d) ==
    /\ d \in Waits
    /\ d = 1 => now % TokenTTL < MaxTime
    /\ now + d <= MaxHours * TokenTTL
    /\ now' = now + d
    /\ UNCHANGED <<files, attendees, scanLog, leads, tokens, issued, scanner, admin, calls,
                   station, response, reqs, frames>>

TickHour ==
    /\ now < MaxHours * TokenTTL
    /\ now' = now + TokenTTL
    /\ UNCHANGED <<response, reqs, frames>>
    /\ UNCHANGED <<files, attendees, scanLog, leads, tokens, issued, scanner, admin, calls,
                   station>>

----------------------------------------------------------------------------
(* Scanner stations whose handler runs interleave.  A handler is cut at its awaits:  *)
(* the lookup, then POST /api/checkin on the first-time branch, then POST            *)
(* /api/scanlog.  What the lookup returned stays in the handler's variables.         *)

Stations == {"s1", "s2"}

IdleStation == [pc |-> "idle", method |-> "", id |-> <<>>, found |-> NoAttendee]

\* handleScanResult up to the end of its lookup
StationScan(s, raw) ==
    /\ station[s].pc = "idle"
    /\ LET id == ScanId(raw)
           look == ScanLookup(attendees, files.attendees, id)
       IN /\ station' = [station EXCEPT ![s] =
                IF id # <<>> /\ look.found
                THEN [pc |-> "resolved", method |-> "scan", id |-> id,
                      found |-> look.attendee]
                ELSE IdleStation]
          /\ calls' = IF id = <<>> THEN <<>> ELSE look.calls
    /\ UNCHANGED <<response, reqs, frames>>
    /\ UNCHANGED <<now, files, attendees, scanLog, leads, tokens, issued, scanner, admin>>

\* handleManualCheckin up to the end of its lookup
StationManual(s, manualName) ==
    /\ station[s].pc = "idle"
    /\ LET term == Trim(manualName)
           look == ManualLookup(attendees, files.attendees, term)
       IN /\ station' = [station EXCEPT ![s] =
                IF term # <<>> /\ look.ok /\ look.found
                THEN [pc |-> "resolved", method |-> "manual", id |-> look.attendee.id,
                      found |-> look.attendee]
                ELSE IdleStation]
          /\ calls' = IF term = <<>> THEN <<>> ELSE look.calls
    /\ UNCHANGED <<response, reqs, frames>>
    /\ UNCHANGED <<now, files, attendees, scanLog, leads, tokens, issued, scanner, admin>>

\* the first-time branch: await fetch("/api/checkin", {id, checkedIn: true})
StationCheckin(s) ==
    /\ station[s].pc = "resolved"
    /\ ~station[s].found.checkedIn
    /\ LET chk == CheckinPost(attendees, files.attendees, station[s].id, TRUE, now)
       IN /\ attendees' = chk.attendees
          /\ calls' = <<Call("POST /checkin", station[s].method, TRUE, "", chk.status)>>
    /\ station' = [station EXCEPT ![s].pc = "posted"]
    /\ UNCHANGED <<response, reqs, frames>>
    /\ UNCHANGED <<now, files, scanLog, leads, tokens, issued, scanner, admin>>

\* await fetch("/api/scanlog", ...): at once on the already-checked-in branch, after
\* the check-in on the first-time branch
StationLogAtOnce(s) ==
    /\ station[s].pc \in {"resolved", "posted"}
    /\ Len(scanLog) < MaxLog
    /\ LET found == station[s].found
           log == ScanlogPost(scanLog, files.scanlog, found.id, DisplayName(found),
                              found.email, station[s].method, now)
       IN /\ scanLog' = log.logs
          /\ calls' = <<Call("POST /scanlog", station[s].method, FALSE,
                             station[s].method, log.status)>>
    /\ station' = [station EXCEPT ![s] = IdleStation]
    /\ UNCHANGED <<now, files, attendees, leads, tokens, issued, scanner, admin, response,
                   reqs, frames>>
StationLog(s) ==
    /\ \/ station[s].pc = "resolved" /\ station[s].found.checkedIn
       \/ station[s].pc = "posted"
    /\ Len(scanLog) < MaxLog
    /\ LET found == station[s].found
           log == ScanlogPost(scanLog, files.scanlog, found.id, DisplayName(found),
                              found.email, station[s].method, now)
       IN /\ scanLog' = log.logs
          /\ calls' = <<Call("POST /scanlog", station[s].method, FALSE,
                             station[s].method, log.status)>>
    /\ station' = [station EXCEPT ![s] = IdleStation]
    /\ UNCHANGED <<response, reqs, frames>>
    /\ UNCHANGED <<now, files, attendees, leads, tokens, issued, scanner, admin>>

----------------------------------------------------------------------------
(* Route handlers that interleave.  A handler awaits its readFile and later its      *)
(* writeFile; between the two, other handlers run.  Date.now() and new Date() are    *)
(* evaluated when the read returns.                                                  *)

Request(kind, args, local, file, t) ==
    [kind |-> kind, args |-> args, local |-> local, file |-> file, t |-> t,
     pc |-> "read", status |-> 0]

Endpoint(kind) ==
    CASE kind = "scanlog" -> "POST /scanlog"
      [] kind = "register" -> "POST /register"
      [] kind = "checkin" -> "POST /checkin"
      [] kind = "patch" -> "PATCH /attendees/{id}"

\* what the handler answers and writes, computed from what it read
Outcome(q) ==
    CASE q.kind = "scanlog" ->
            LET r == ScanlogPost(q.local, q.file, q.args.attendeeId, q.args.attendeeName,
                                 q.args.attendeeEmail, q.args.method, q.t)
            IN [status |-> r.status, rows |-> r.logs]
      [] q.kind = "register" ->
            LET r == RegisterPost(q.local, q.file, q.args.firstName, q.args.lastName,
                                  q.args.email, q.t)
            IN [status |-> r.status, rows |-> r.attendees]
      [] q.kind = "checkin" ->
            LET r == CheckinPost(q.local, q.file, q.args.id, q.args.checkedIn, q.t)
            IN [status |-> r.status, rows |-> r.attendees]
      [] q.kind = "patch" ->
            LET r == AttendeePatch(q.local, q.file, q.args.id, q.args.payload)
            IN [status |-> r.status, rows |-> r.attendees]

\* the handler is entered and its readFile returns
Begin(kind, args) ==
    /\ Len(reqs) < MaxReqs
    /\ reqs' = Append(reqs,
                  IF kind = "scanlog"
                  THEN Request(kind, args, scanLog, files.scanlog, now)
                  ELSE Request(kind, args, attendees, files.attendees, now))
    /\ UNCHANGED <<now, files, attendees, scanLog, leads, tokens, issued, scanner, admin,
                   calls, station, response, frames>>

\* its writeFile completes, if it got that far, and the answer is sent
FinishOnFreshRead(k) ==
    /\ k \in 1..Len(reqs)
    /\ reqs[k].pc = "read"
    /\ LET q == [reqs[k] EXCEPT !.local = IF reqs[k].kind = "scanlog" THEN scanLog
                                          ELSE attendees]
           out == Outcome(q)
           wrote == out.status \in {200, 201}
       IN /\ reqs' = [reqs EXCEPT ![k].pc = "done", ![k].status = out.status]
          /\ scanLog' = IF wrote /\ q.kind = "scanlog" THEN out.rows ELSE scanLog
          /\ attendees' = IF wrote /\ q.kind # "scanlog" THEN out.rows ELSE attendees
          /\ files' = IF wrote /\ q.kind = "register"
                      THEN [files EXCEPT !.attendees = "ok"] ELSE files
          /\ calls' = <<Call(Endpoint(q.kind), "api", FALSE, "", out.status)>>
    /\ UNCHANGED <<now, leads, tokens, issued, scanner, admin, station, response, frames>>
Finish(k) ==
    /\ k \in 1..Len(reqs)
    /\ reqs[k].pc = "read"
    /\ LET q == reqs[k]
           out == Outcome(q)
           wrote == out.status \in {200, 201}
       IN /\ reqs' = [reqs EXCEPT ![k].pc = "done", ![k].status = out.status]
          /\ scanLog' = IF wrote /\ q.kind = "scanlog" THEN out.rows ELSE scanLog
          /\ attendees' = IF wrote /\ q.kind # "scanlog" THEN out.rows ELSE attendees
          /\ files' = IF wrote /\ q.kind = "register"
                      THEN [files EXCEPT !.attendees = "ok"] ELSE files
          /\ calls' = <<Call(Endpoint(q.kind), "api", FALSE, "", out.status)>>
    /\ UNCHANGED <<now, leads, tokens, issued, scanner, admin, station, response, frames>>

----------------------------------------------------------------------------
(* Initial state: no registration yet; the scan log file is deployed empty,     *)
(* since no request creates it; the scanner page has just mounted.              *)

Init ==
    /\ now = 1
    /\ files = [attendees |-> "missing", scanlog |-> "ok", leads |-> "missing",
                tokens |-> "missing", events |-> "missing"]
    /\ attendees = <<>>
    /\ scanLog = <<>>
    /\ leads = <<>>
    /\ tokens = <<>>
    /\ issued = <<>>
    /\ scanner = ScannerView("scanning", "point", "", TRUE)
    /\ admin = [attendees |-> <<>>, checkingInId |-> <<>>, error |-> ""]
    /\ calls = <<>>
    /\ station = [s \in Stations |-> IdleStation]
    /\ response = NoResponse
    /\ reqs = <<>>
    /\ frames = FrameLoops("frame", NoStale, FALSE)

\* One scanner station and the registration page, every handler run to completion
Next ==
    \/ Tick
    \/ \E r \in Registrations : Register(r.firstName, r.lastName, r.email)
    \/ \E raw \in Payloads : HandleScanResult(raw)
    \/ \E term \in Terms : HandleManualCheckin(term)
    \/ HandleScanAgain

Spec == Init /\ [][Next]_vars

----------------------------------------------------------------------------
(* Vocabulary of the properties *)

\* some stored attendee has this email, both sides trimmed and lower-cased
EmailPresent(list, email) ==
    \E i \in 1..Len(list) : Lower(Trim(list[i].email)) = Lower(Trim(email))

ValidFields(firstName, lastName, email) ==
    firstName # <<>> /\ lastName # <<>> /\ email # <<>>

IdKnown(list, id) == id # <<>> /\ \E i \in 1..Len(list) : list[i].id = id

NameKnown(list, term) ==
    Trim(term) # <<>> /\ \E i \in 1..Len(list) : ManualMatches(list[i], Trim(term))

Posts(cs, ep) == {i \in 1..Len(cs) : cs[i].ep = ep}

\* A step of handleScanResult(raw) or of handleManualCheckin(term); the tests on the
\* scanner's view come first so that other steps are told apart cheaply.
ScanStep(raw) ==
    /\ scanner.isScanningEnabled /\ ~scanner'.isScanningEnabled
    /\ scanner'.lastMethod = "scan"
    /\ HandleScanResult(raw)

ManualStep(term) ==
    /\ scanner'.message = "typeName" \/ scanner'.lastMethod = "manual"
    /\ HandleManualCheckin(term)

RegisterStep(r) ==
    /\ calls' # <<>> /\ calls'[1].ep = "POST /register"
    /\ Register(r.firstName, r.lastName, r.email)

\* the log grew by exactly one entry, the older entries untouched
AppendedOne(old, new) == Len(new) = Len(old) + 1 /\ SubSeq(new, 1, Len(old)) = old

----------------------------------------------------------------------------
(* C1 *)

\* C1: one station, no other writer, no undo: after any handleScanResult of
\* "hemisphere:<a.id>" for a registered attendee a, a is checked in with a
\* checkedInAt; a checkedInAt that was already set is left as it was; and the call
\* appended exactly one scan-log entry.
C1_RepeatedScan ==
    [][\A i \in 1..Len(attendees) :
          ScanStep(QrValue(attendees[i].id)) =>
             /\ Len(attendees') = Len(attendees)
             /\ attendees'[i].checkedIn
             /\ attendees'[i].checkedInAt # NoTime
             /\ (attendees[i].checkedInAt # NoTime =>
                    attendees'[i].checkedInAt = attendees[i].checkedInAt)
             /\ AppendedOne(scanLog, scanLog')]_vars

----------------------------------------------------------------------------
(* C4 *)

\* C4 as stated: a POST /register whose email is, trimmed and lower-cased, already in
\* the store is answered 409 and leaves the attendee store unchanged.
C4_DuplicateAsStated ==
    [][\A r \in Registrations :
          (RegisterStep(r)
           /\ EmailPresent(attendees, r.email)) =>
             (calls'[1].status = 409 /\ attendees' = attendees)]_vars

\* C4 amended: the same for a request whose firstName, lastName and email are all
\* non-empty (a request lacking one of them is answered 400 before the store is read).
C4_DuplicateRejected ==
    [][\A r \in Registrations :
          (RegisterStep(r)
           /\ ValidFields(r.firstName, r.lastName, r.email)
           /\ EmailPresent(attendees, r.email)) =>
             (calls'[1].status = 409 /\ attendees' = attendees /\ files' = files)]_vars

\* a duplicate registration has just been refused
C4_Witness ==
    /\ calls = <<Call("POST /register", "register", FALSE, "", 409)>>
    /\ Len(attendees) >= 1

----------------------------------------------------------------------------
(* C5 *)

\* C5: two stored attendees with distinct emails have distinct ids.
C5_DistinctIds ==
    \A i, j \in 1..Len(attendees) :
        attendees[i].email # attendees[j].email => attendees[i].id # attendees[j].id

----------------------------------------------------------------------------
(* C6 *)

\* C6: a POST /register with valid fields and an email not yet present is answered
\* 201, and the store afterwards is the store before followed by exactly one record,
\* the new attendee.
C6_RegisterAppendsOne ==
    [][\A r \in Registrations :
          (RegisterStep(r)
           /\ ValidFields(r.firstName, r.lastName, r.email)
           /\ ~EmailPresent(attendees, r.email)) =>
             /\ calls'[1].status = 201
             /\ AppendedOne(attendees, attendees')
             /\ LET a == attendees'[Len(attendees')]
                IN /\ a.firstName = r.firstName /\ a.lastName = r.lastName
                   /\ a.email = Lower(Trim(r.email))
                   /\ ~a.checkedIn]_vars

\* a second registration has just succeeded
C6_Witness ==
    /\ calls = <<Call("POST /register", "register", FALSE, "", 201)>>
    /\ Len(attendees) = 2

----------------------------------------------------------------------------
(* C8 *)

\* C8: a scan whose identifier is empty or unknown, and a manual attempt whose term is
\* empty or matches no attendee, issue neither POST /checkin nor POST /scanlog and
\* leave the attendee store and the scan log as they were.
C8_UnresolvedWritesNothing ==
    [][/\ \A raw \in Payloads :
             (ScanStep(raw) /\ ~IdKnown(attendees, ScanId(raw))) =>
                /\ Posts(calls', "POST /checkin") = {}
                /\ Posts(calls', "POST /scanlog") = {}
                /\ attendees' = attendees /\ scanLog' = scanLog
       /\ \A term \in Terms :
             (ManualStep(term) /\ ~NameKnown(attendees, term)) =>
                /\ Posts(calls', "POST /checkin") = {}
                /\ Posts(calls', "POST /scanlog") = {}
                /\ attendees' = attendees /\ scanLog' = scanLog]_vars

\* an attempt has just failed to resolve while an attendee was registered
C8_Witness ==
    /\ scanner.scanState = "error"
    /\ scanner.message = "notFound"
    /\ Len(attendees) >= 1
    /\ calls # <<>>

----------------------------------------------------------------------------
(* C9 *)

\* C9 (the scan-log file readable, as it is in every state of Spec): a scan that
\* resolves an attendee, checked in already or not, appends exactly one
\* scan-log entry with that attendee's id and method "scan"; a manual attempt that
\* resolves one appends exactly one entry with the id of a matching attendee and
\* method "manual".
C9_ResolvedLogsOnce ==
    [][/\ \A raw \in Payloads :
             (ScanStep(raw) /\ IdKnown(attendees, ScanId(raw))) =>
                /\ AppendedOne(scanLog, scanLog')
                /\ scanLog'[Len(scanLog')].attendeeId = ScanId(raw)
                /\ scanLog'[Len(scanLog')].method = "scan"
       /\ \A term \in Terms :
             (ManualStep(term) /\ NameKnown(attendees, term)) =>
                /\ AppendedOne(scanLog, scanLog')
                /\ \E i \in 1..Len(attendees) :
                      /\ ManualMatches(attendees[i], Trim(term))
                      /\ scanLog'[Len(scanLog')].attendeeId = attendees[i].id
                /\ scanLog'[Len(scanLog')].method = "manual"]_vars

\* the log holds a first-time entry followed by a repeat entry of the other method
C9_Witness ==
    /\ Len(scanLog) = 2
    /\ scanLog[1].attendeeId = scanLog[2].attendeeId
    /\ scanLog[1].method = "scan"
    /\ scanLog[2].method = "manual"
    /\ scanner.message = "already"

----------------------------------------------------------------------------
(* The admin page beside the scanner station and the registration page *)

\* two people are enough for the operator's table
AdminRegistrations ==
    {Registration(<<"A">>, <<"B">>, <<"a">>), Registration(<<"a", "b">>, <<"B">>, <<"b">>)}

AdminTerms == {<<"a">>, <<"a", "b">>, <<"x">>}

NextAdmin ==
    \/ Tick
    \/ \E r \in AdminRegistrations : Register(r.firstName, r.lastName, r.email)
    \/ \E raw \in Payloads : HandleScanResult(raw)
    \/ \E term \in AdminTerms : HandleManualCheckin(term)
    \/ HandleScanAgain
    \/ LoadAttendees
    \/ \E i \in 1..MaxAttendees : HandleCheckStatus(i)

SpecAdmin == Init /\ [][NextAdmin]_vars

----------------------------------------------------------------------------
(* The two attendee endpoints alone, requests served one after the other *)

Ids == {NumStr(t) : t \in Times}

NextApi ==
    \/ Tick
    \/ \E r \in Registrations : Register(r.firstName, r.lastName, r.email)
    \/ \E id \in Ids, checkedIn \in BOOLEAN : ApiCheckin(id, checkedIn)

SpecApi == Init /\ [][NextApi]_vars

----------------------------------------------------------------------------
(* C7 *)

\* C7: after any sequence of POST /register and POST /checkin requests served one at a
\* time from an empty store, no two attendees have emails that are equal once trimmed
\* and lower-cased.
C7_EmailsUnique ==
    \A i, j \in 1..Len(attendees) :
        i # j => Lower(Trim(attendees[i].email)) # Lower(Trim(attendees[j].email))

\* two attendees are stored, one checked in, and a spelling of a stored email was refused
C7_Witness ==
    /\ Len(attendees) = 2
    /\ attendees[1].checkedIn
    /\ calls = <<Call("POST /register", "register", FALSE, "", 409)>>

----------------------------------------------------------------------------
(* C10 *)

UndoCall == Call("POST /checkin", "checkStatus", FALSE, "", 200)

\* C10: the scanner's handlers never post checkedIn=false; handleCheckStatus posting
\* checkedIn=false for a stored id leaves the attendee of that id with checkedIn false
\* and no checkedInAt; and an attendee goes from checked in to not checked in only in
\* a step of handleCheckStatus that posted checkedIn=false.
C10_UndoOnlyByOperator ==
    /\ [](\A k \in 1..Len(calls) :
            (calls[k].ep = "POST /checkin" /\ calls[k].caller \in {"scan", "manual"})
               => calls[k].checkedIn)
    /\ [][/\ \A i \in 1..MaxAttendees :
                (/\ calls' = <<UndoCall>>
                 /\ HandleCheckStatus(i)) =>
                    LET index == FindIndex(attendees, admin.attendees[i].id)
                    IN /\ ~attendees'[index].checkedIn
                       /\ attendees'[index].checkedInAt = NoTime
          /\ \A n \in 1..Len(attendees) :
                (attendees[n].checkedIn /\ ~attendees'[n].checkedIn) =>
                   (calls' = <<UndoCall>> /\ \E i \in 1..MaxAttendees : HandleCheckStatus(i))
         ]_vars

\* the operator has just undone a check-in that the scanner had made and logged
C10_Witness ==
    /\ calls = <<UndoCall>>
    /\ \E n \in 1..Len(attendees), k \in 1..Len(scanLog) :
          /\ scanLog[k].attendeeId = attendees[n].id
          /\ ~attendees[n].checkedIn
          /\ attendees[n].checkedInAt = NoTime

----------------------------------------------------------------------------
(* Login links and lead capture *)

PortalEmails == {<<"x">>, <<" ", "X">>, <<>>}
\* the tokens a request can carry: one that was issued, one that never was, none
RequestTokens == {Uuid(n) : n \in 1..MaxTokens} \cup {"unknown", ""}
Exhibitors == {<<"X">>, <<>>}

\* Authorization headers: a link that was issued, in two spellings of the scheme, one
\* that never was, another scheme, a scheme without a token, no header
Bearer(token) == <<"B", "e", "a", "r", "e", "r", " ", token>>

Auths ==
    {Bearer(Uuid(n)) : n \in 1..MaxTokens}
    \cup {BEARER \o <<Uuid(1)>>, Bearer("unknown"), <<"B", "a", "s", "i", "c", " ", Uuid(1)>>,
          <<"B", "e", "a", "r", "e", "r", " ">>, <<>>}

NextLeads ==
    \/ Tick
    \/ TickHour
    \/ \E e \in PortalEmails : RequestLink(e)
    \/ \E tk \in RequestTokens, x \in Exhibitors : CaptureLead(tk, NumStr(1), x)

SpecLeads == Init /\ [][NextLeads]_vars

----------------------------------------------------------------------------
(* C2 *)

\* C2: a POST /leads whose token is expired, unknown or missing is answered 401 and
\* leaves the lead store unchanged.
C2_LeadNeedsValidToken ==
    [][\A tk \in RequestTokens, x \in Exhibitors :
          (CaptureLead(tk, NumStr(1), x) /\ ~IsTokenValid(tk, tokens, now)) =>
             (calls'[1].status = 401 /\ leads' = leads)]_vars

----------------------------------------------------------------------------
(* Two scanner stations and a client that undoes check-ins, interleaved *)

NextConc ==
    \/ Tick
    \/ \E r \in AdminRegistrations : Register(r.firstName, r.lastName, r.email)
    \/ \E s \in Stations, raw \in Payloads : StationScan(s, raw)
    \/ \E s \in Stations, term \in AdminTerms : StationManual(s, term)
    \/ \E s \in Stations : StationCheckin(s)
    \/ \E s \in Stations : StationLog(s)
    \/ \E id \in Ids : ApiCheckin(id, FALSE)

SpecConc == Init /\ [][NextConc]_vars

----------------------------------------------------------------------------
(* C3 *)

\* C3: once the store holds a checkedInAt for an attendee, a step changes it only by
\* clearing it, and only when the step is a POST /checkin with checkedIn=false.
C3_StampKept ==
    [][\A n \in 1..Len(attendees) :
          (attendees[n].checkedInAt # NoTime
           /\ attendees'[n].checkedInAt # attendees[n].checkedInAt) =>
             /\ attendees'[n].checkedInAt = NoTime
             /\ calls' = <<Call("POST /checkin", "api", FALSE, "", 200)>>]_vars

----------------------------------------------------------------------------
(* The exhibitor portal: login links and the token check, to the millisecond *)

NextPortal ==
    \/ \E d \in Waits : Wait(d)
    \/ \E e \in PortalEmails : RequestLink(e)
    \/ \E auth \in Auths : GetExhibitorLeads(auth)

SpecPortal == Init /\ [][NextPortal]_vars

\* the step is GET /api/exhibitors/leads answering this header
PortalStep(auth) ==
    /\ response'.ep = "GET /exhibitors/leads" /\ response'.request = auth
    /\ GetExhibitorLeads(auth)

----------------------------------------------------------------------------
(* C11 *)

\* C11: GET /exhibitors/leads answers 200 exactly when the header carries a bearer
\* token stored with an expiresAt later than now; a token that is not stored and a
\* token that is stored but expired are both answered 401 with the body
\* "Invalid or expired token".
C11_TokenGate ==
    [][\A auth \in Auths :
          PortalStep(auth) =>
             LET token == BearerToken(auth)
                 stored == {i \in 1..Len(tokens) : tokens[i].token = token}
                 live == {i \in stored : DateGetTime(tokens[i].expiresAt) > now}
             IN /\ response'.status = 200 <=> (token # "" /\ live # {})
                /\ (token # "" /\ live = {}) =>
                      /\ response'.status = 401
                      /\ response'.error = "Invalid or expired token"
                      /\ response'.body = <<>> /\ response'.email = <<>>]_vars

\* a stored token has just been refused because it had expired
C11_Witness ==
    /\ response.status = 401
    /\ response.error = "Invalid or expired token"
    /\ \E i \in 1..Len(tokens) :
          /\ tokens[i].token = BearerToken(response.request)
          /\ DateGetTime(tokens[i].expiresAt) <= now

----------------------------------------------------------------------------
(* C13 *)

\* C13: a login link issued at time t is stored with expiresAt = t + 3600000 ms; a
\* GET /exhibitors/leads carrying it is answered 200 at every time before t + 3600000
\* and 401 at every time from t + 3600000 on.
C13_OneHour ==
    [][/\ Len(issued') = Len(issued) + 1 =>
             /\ tokens' # <<>>
             /\ tokens'[Len(tokens')].token = Uuid(Len(issued'))
             /\ DateGetTime(tokens'[Len(tokens')].expiresAt) = now + 3600000
       /\ \A n \in 1..Len(issued) :
             PortalStep(Bearer(Uuid(n))) =>
                response'.status = IF now < issued[n] + 3600000 THEN 200 ELSE 401]_vars

\* a link has just been refused at the very millisecond it expired
C13_Witness ==
    /\ response.status = 401
    /\ \E n \in 1..Len(issued) :
          response.request = Bearer(Uuid(n)) /\ now = issued[n] + 3600000

----------------------------------------------------------------------------
(* One exhibitor's link beside leads captured for two exhibitors *)

\* a lead names its exhibitor; "x" is also the email the login link is issued to
LeadExhibitors == {<<"x">>, <<"y">>}

LeadAuths == {Bearer(Uuid(1)), Bearer("unknown")}

NextExhibitor ==
    \/ Tick
    \/ TickHour
    \/ RequestLink(<<"x">>)
    \/ \E x \in LeadExhibitors : CaptureLead("", NumStr(1), x)
    \/ \E auth \in LeadAuths : GetExhibitorLeads(auth)

SpecExhibitor == Init /\ [][NextExhibitor]_vars

----------------------------------------------------------------------------
(* C12 *)

\* C12: a GET /exhibitors/leads answered 200 carries only leads whose exhibitor is the
\* one the token was issued to, the email of the answer.
C12_OwnLeadsOnly ==
    [][\A auth \in LeadAuths :
          (PortalStep(auth) /\ response'.status = 200) =>
             \A i \in 1..Len(response'.body) :
                 response'.body[i].exhibitor = response'.email]_vars

----------------------------------------------------------------------------
(* C14 *)

\* C14: GET /exhibitors/leads leaves the token store, the lead store and their files as
\* they were, and a link is accepted on every request made before it expires.
C14_ReadOnly ==
    [][\A auth \in LeadAuths :
          PortalStep(auth) =>
             /\ tokens' = tokens /\ leads' = leads /\ files' = files
             /\ \A n \in 1..Len(issued) :
                   (auth = Bearer(Uuid(n)) /\ now < issued[n] + 3600000) =>
                      response'.status = 200]_vars

\* the link was accepted after it had been used: the answer holds a lead captured later
\* than the link's first millisecond
C14_Witness ==
    /\ response.status = 200
    /\ tokens # <<>>
    /\ \E i \in 1..Len(response.body) : response.body[i].timestamp > issued[1]

----------------------------------------------------------------------------
(* C15 *)

\* C15: a POST /leads answered 201 leaves the lead store as it was, followed by exactly
\* one new row for the attendee and exhibitor of the request, whether or not such a
\* row was already stored.
C15_LeadAppendsOne ==
    [][\A tk \in RequestTokens, x \in Exhibitors :
          (/\ calls' # <<>> /\ calls'[1].ep = "POST /leads" /\ calls'[1].status = 201
           /\ CaptureLead(tk, NumStr(1), x)) =>
             /\ AppendedOne(leads, leads')
             /\ leads'[Len(leads')].attendeeId = NumStr(1)
             /\ leads'[Len(leads')].exhibitor = NewLead(NumStr(1), x, now).exhibitor]_vars

\* the same attendee has been captured twice for the same exhibitor
C15_Witness ==
    /\ Len(leads) >= 2
    /\ leads[1].attendeeId = leads[2].attendeeId
    /\ leads[1].exhibitor = leads[2].exhibitor
    /\ calls = <<Call("POST /leads", "exhibitor", FALSE, "", 201)>>

----------------------------------------------------------------------------
(* C16 *)

\* C16: a POST /register answered 201 returns "hemisphere:" followed by the id of the
\* attendee it stored; and a scan of the qrValue of a stored attendee resolves that
\* attendee: the entry it logs carries that attendee's email, and no other attendee's
\* record changes.
C16_QrResolvesOwner ==
    [][/\ \A r \in Registrations :
             (RegisterStep(r) /\ calls'[1].status = 201) =>
                RegisterPost(attendees, files.attendees, r.firstName, r.lastName,
                             r.email, now).qrValue
                   = HEMI \o attendees'[Len(attendees')].id
       /\ \A i \in 1..Len(attendees) :
             ScanStep(QrValue(attendees[i].id)) =>
                /\ scanLog' # <<>>
                /\ scanLog'[Len(scanLog')].attendeeEmail = attendees[i].email
                /\ \A j \in 1..Len(attendees) : j # i => attendees'[j] = attendees[j]]_vars

----------------------------------------------------------------------------
(* Interleaved requests to POST /api/scanlog *)

LogBodies ==
    {[attendeeId |-> NumStr(n), attendeeName |-> <<"A", " ", "B">>,
      attendeeEmail |-> <<"a">>, method |-> m] : n \in 1..2, m \in {"scan", "manual"}}

NextLogRace ==
    \/ Tick
    \/ \E b \in LogBodies : Begin("scanlog", b)
    \/ \E k \in 1..MaxReqs : Finish(k)

SpecLogRace == Init /\ [][NextLogRace]_vars

\* the handler was answered with success
Acked(q) == q.pc = "done" /\ q.status \in {200, 201}

\* the entry an acknowledged POST /api/scanlog returned to its caller
AckedLog(q) ==
    NewLog(q.args.attendeeId, q.args.attendeeName, q.args.attendeeEmail, q.args.method, q.t)

----------------------------------------------------------------------------
(* C17 *)

\* C17: every entry whose POST /scanlog was answered with success is in the scan log,
\* fields unchanged, as many times as it was acknowledged.
C17_AckedLogsKept ==
    \A k \in 1..Len(reqs) :
        (reqs[k].kind = "scanlog" /\ Acked(reqs[k])) =>
           Cardinality({j \in 1..Len(reqs) :
                           /\ reqs[j].kind = "scanlog" /\ Acked(reqs[j])
                           /\ AckedLog(reqs[j]) = AckedLog(reqs[k])})
              <= Cardinality({i \in 1..Len(scanLog) : scanLog[i] = AckedLog(reqs[k])})

----------------------------------------------------------------------------
(* Interleaved requests to the attendee store *)

CheckinBodies == {[id |-> id, checkedIn |-> c] : id \in Ids, c \in BOOLEAN}

PatchBodies ==
    {[id |-> id, payload |-> p] :
        id \in Ids, p \in {[firstName |-> <<"C">>], [email |-> <<"a">>]}}

NextStoreRace ==
    \/ Tick
    \/ \E r \in AdminRegistrations : Begin("register", r)
    \/ \E b \in CheckinBodies : Begin("checkin", b)
    \/ \E b \in PatchBodies : Begin("patch", b)
    \/ \E k \in 1..MaxReqs : Finish(k)

SpecStoreRace == Init /\ [][NextStoreRace]_vars

----------------------------------------------------------------------------
(* C18 *)

\* C18: for every id, the attendee store holds at least as many records of that id as
\* registrations that were answered 201 with it.
C18_AckedAttendeesKept ==
    \A k \in 1..Len(reqs) :
        (reqs[k].kind = "register" /\ Acked(reqs[k])) =>
           Cardinality({j \in 1..Len(reqs) :
                           /\ reqs[j].kind = "register" /\ Acked(reqs[j])
                           /\ reqs[j].t = reqs[k].t})
              <= Cardinality({i \in 1..Len(attendees) :
                                 attendees[i].id = NumStr(reqs[k].t)})

----------------------------------------------------------------------------
(* Store files that fail.  A file of data/ is replaced by bytes that JSON.parse      *)
(* rejects, or is deleted; the routes are then called one request at a time.         *)

StoreFiles == {"attendees", "scanlog", "leads", "tokens", "events"}

\* the file now holds text that is not JSON; the store variable keeps what it held
Corrupt(f) ==
    /\ f \in StoreFiles
    /\ files[f] # "corrupt"
    /\ files' = [files EXCEPT ![f] = "corrupt"]
    /\ UNCHANGED <<now, attendees, scanLog, leads, tokens, issued, scanner, admin, calls,
                   station, response, reqs, frames>>

\* the file is deleted
Remove(f) ==
    /\ f \in StoreFiles
    /\ files[f] # "missing"
    /\ files' = [files EXCEPT ![f] = "missing"]
    /\ attendees' = IF f = "attendees" THEN <<>> ELSE attendees
    /\ scanLog' = IF f = "scanlog" THEN <<>> ELSE scanLog
    /\ leads' = IF f = "leads" THEN <<>> ELSE leads
    /\ tokens' = IF f = "tokens" THEN <<>> ELSE tokens
    /\ UNCHANGED <<now, issued, scanner, admin, calls, station, response, reqs, frames>>

\* A client of POST /api/scanlog
PostScanlog(b) ==
    /\ Len(scanLog) < MaxLog
    /\ LET r == ScanlogPost(scanLog, files.scanlog, b.attendeeId, b.attendeeName,
                            b.attendeeEmail, b.method, now)
       IN /\ scanLog' = r.logs
          /\ calls' = <<Call("POST /scanlog", "api", FALSE, "", r.status)>>
    /\ UNCHANGED <<now, files, attendees, leads, tokens, issued, scanner, admin, station,
                   response, reqs, frames>>

\* A client of PATCH /api/attendees/[id]
PatchAttendee(b) ==
    /\ LET r == AttendeePatch(attendees, files.attendees, b.id, b.payload)
       IN /\ attendees' = r.attendees
          /\ calls' = <<Call("PATCH /attendees/{id}", "api", FALSE, "", r.status)>>
    /\ UNCHANGED <<now, files, scanLog, leads, tokens, issued, scanner, admin, station,
                   response, reqs, frames>>

\* A client of one of the five GET routes
Answer(ep, r) ==
    /\ response' = Response(ep, <<>>, r.status, "", r.body, <<>>)
    /\ calls' = <<Call(ep, "api", FALSE, "", r.status)>>
    /\ UNCHANGED <<now, files, attendees, scanLog, leads, tokens, issued, scanner, admin,
                   station, reqs, frames>>

GetAttendees == Answer("GET /attendees", AttendeesGet(attendees, files.attendees))

GetScanlog == Answer("GET /scanlog", ScanlogGet(scanLog, files.scanlog))

GetLeads == Answer("GET /leads", LeadsGet(leads, files.leads))

\* no route of the model writes events.json: a file that exists holds no event
GetEvents == Answer("GET /events", EventsGet(<<>>, files.events))

GetScanlogExport ==
    Answer("GET /scanlog/export", ScanlogExportGet(scanLog, files.scanlog))

FileRegistrations ==
    {Registration(<<"A">>, <<"B">>, <<"a">>), Registration(<<"A">>, <<"B">>, <<>>)}

FileCheckins == {[id |-> NumStr(1), checkedIn |-> TRUE]}

FilePatches == {[id |-> NumStr(1), payload |-> [firstName |-> <<"C">>]],
                [id |-> NumStr(2), payload |-> [firstName |-> <<"C">>]]}

FileLogs == {[attendeeId |-> NumStr(1), attendeeName |-> <<"A", " ", "B">>,
              attendeeEmail |-> <<"a">>, method |-> "scan"]}

FileEmails == {<<"x">>, <<>>}

\* the six mutating routes on files that may have been corrupted
NextFiles ==
    \/ \E f \in StoreFiles \ {"events"} : Corrupt(f)
    \/ \E r \in FileRegistrations : Register(r.firstName, r.lastName, r.email)
    \/ \E b \in FileCheckins : ApiCheckin(b.id, b.checkedIn)
    \/ \E b \in FilePatches : PatchAttendee(b)
    \/ \E b \in FileLogs : PostScanlog(b)
    \/ CaptureLead("", NumStr(1), <<"x">>)
    \/ \E e \in FileEmails : RequestLink(e)

SpecFiles == Init /\ [][NextFiles]_vars

\* the five GET routes on files that may have been corrupted or deleted
NextReads ==
    \/ \E f \in StoreFiles : Corrupt(f)
    \/ \E f \in StoreFiles : Remove(f)
    \/ Register(<<"A">>, <<"B">>, <<"a">>)
    \/ \E b \in FileLogs : PostScanlog(b)
    \/ CaptureLead("", NumStr(1), <<"x">>)
    \/ GetAttendees
    \/ GetScanlog
    \/ GetLeads
    \/ GetEvents
    \/ GetScanlogExport

SpecReads == Init /\ [][NextReads]_vars

\* the request was answered with an error and no store file changed
Refused ==
    /\ calls'[1].status >= 400
    /\ files' = files
    /\ <<attendees, scanLog, leads, tokens>>' = <<attendees, scanLog, leads, tokens>>

\* the request was answered with success and an empty collection
AnsweredEmpty == response'.status = 200 /\ response'.body = <<>>

----------------------------------------------------------------------------
(* C19 *)

\* C19: a request to POST /register, POST /checkin, PATCH /attendees/{id}, POST /scanlog,
\* POST /leads or POST /exhibitors/request-link whose store file holds corrupt JSON is
\* answered with an error and leaves every store file as it was.
C19_CorruptFailsClosed ==
    [][/\ \A r \in FileRegistrations :
             (files.attendees = "corrupt" /\ Register(r.firstName, r.lastName, r.email))
                => Refused
       /\ \A b \in FileCheckins :
             (files.attendees = "corrupt" /\ ApiCheckin(b.id, b.checkedIn)) => Refused
       /\ \A b \in FilePatches :
             (files.attendees = "corrupt" /\ PatchAttendee(b)) => Refused
       /\ \A b \in FileLogs :
             (files.scanlog = "corrupt" /\ PostScanlog(b)) => Refused
       /\ (files.leads = "corrupt" /\ CaptureLead("", NumStr(1), <<"x">>)) => Refused
       /\ \A e \in FileEmails :
             (files.tokens = "corrupt" /\ RequestLink(e)) => Refused]_vars

----------------------------------------------------------------------------
(* C20 *)

\* C20: GET /attendees, GET /scanlog, GET /leads, GET /events and GET /scanlog/export,
\* called while their store file is missing or holds corrupt JSON, answer 200 with an
\* empty collection (the export: 200 with the header line alone).
C20_ReadsFailOpen ==
    [][/\ (files.attendees # "ok" /\ GetAttendees) => AnsweredEmpty
       /\ (files.scanlog # "ok" /\ GetScanlog) => AnsweredEmpty
       /\ (files.leads # "ok" /\ GetLeads) => AnsweredEmpty
       /\ (files.events # "ok" /\ GetEvents) => AnsweredEmpty
       /\ (files.scanlog # "ok" /\ GetScanlogExport)
             => (response'.status = 200
                 /\ response'.body = Join([j \in 1..Len(CsvHeaders) |-> <<CsvHeaders[j]>>],
                                          ","))]_vars

----------------------------------------------------------------------------
(* The scan log exported as CSV *)

\* names with a space, with double quotes, with a comma and with a line break
ExportLogs ==
    {[attendeeId |-> NumStr(1), attendeeName |-> n, attendeeEmail |-> <<"a">>,
      method |-> "scan"] :
        n \in {<<"A", " ", "B">>, <<"a", "\"", "b">>, <<"\"", "\"">>, <<"a", ",", "b">>,
               <<"a", "\n", "b">>}}

NextExport ==
    \/ \E b \in ExportLogs : PostScanlog(b)
    \/ GetScanlogExport

SpecExport == Init /\ [][NextExport]_vars

----------------------------------------------------------------------------
(* C21 *)

\* C21: GET /scanlog/export over a readable scan log of N entries none of whose fields
\* holds a line break answers 200 with a text of exactly N+1 lines; the first is
\* id,attendeeId,attendeeName,attendeeEmail,timestamp; line i+1 reads, as a CSV line of
\* quoted cells with doubled quotes, as the five fields of entry i of the log.
C21_CsvExport ==
    [][(/\ files.scanlog = "ok"
        /\ \A i \in 1..Len(scanLog) : \A k \in 1..Len(scanLog[i].attendeeName) :
               scanLog[i].attendeeName[k] # "\n"
        /\ GetScanlogExport) =>
          LET text == response'.body
              breaks == {k \in 1..Len(text) : text[k] = "\n"}
              \* the k-th line of the text
              Line(k) ==
                  LET from == IF k = 1 THEN 0
                              ELSE CHOOSE b \in breaks :
                                      Cardinality({c \in breaks : c < b}) = k - 2
                      to == IF k = Cardinality(breaks) + 1 THEN Len(text) + 1
                            ELSE CHOOSE b \in breaks :
                                    Cardinality({c \in breaks : c < b}) = k - 1
                  IN SubSeq(text, from + 1, to - 1)
              \* the cells of a line whose every cell is quoted; <<>> when it is not one
              RECURSIVE Cells(_, _, _, _, _)
              Cells(line, k, st, cur, acc) ==
                  IF k > Len(line)
                  THEN IF st = "closed" THEN Append(acc, cur) ELSE <<>>
                  ELSE LET c == line[k]
                       IN CASE st = "start" ->
                                 IF c = "\"" THEN Cells(line, k + 1, "open", <<>>, acc)
                                 ELSE <<>>
                            [] st = "open" ->
                                 IF c = "\"" THEN Cells(line, k + 1, "closed", cur, acc)
                                 ELSE Cells(line, k + 1, "open", Append(cur, c), acc)
                            [] st = "closed" ->
                                 IF c = "\""
                                 THEN Cells(line, k + 1, "open", Append(cur, c), acc)
                                 ELSE IF c = ","
                                 THEN Cells(line, k + 1, "start", <<>>, Append(acc, cur))
                                 ELSE <<>>
          IN /\ response'.status = 200
             /\ Cardinality(breaks) + 1 = Len(scanLog) + 1
             /\ Line(1) = <<"id", ",", "attendeeId", ",", "attendeeName", ",",
                            "attendeeEmail", ",", "timestamp">>
             /\ \A i \in 1..Len(scanLog) :
                   Cells(Line(i + 1), 1, "start", <<>>, <<>>) =
                      <<NumStr(scanLog[i].id), scanLog[i].attendeeId,
                        scanLog[i].attendeeName, scanLog[i].attendeeEmail,
                        NumStr(scanLog[i].timestamp)>>]_vars

\* a log of two entries has just been exported, one of them with quotes in a name
C21_Witness ==
    /\ response.ep = "GET /scanlog/export"
    /\ response.status = 200
    /\ Len(scanLog) = 2
    /\ response.body = ScanlogExportGet(scanLog, files.scanlog).body
    /\ \E i \in 1..2 : scanLog[i].attendeeName = <<"a", "\"", "b">>
    /\ \A i \in 1..2 : scanLog[i].attendeeName # <<"a", "\n", "b">>

----------------------------------------------------------------------------
(* Interleaved requests to POST /api/checkin beside the registration page; one       *)
(* request fewer than elsewhere is enough for two stations.                          *)

NextCheckinRace ==
    \/ Tick
    \/ \E r \in AdminRegistrations : Register(r.firstName, r.lastName, r.email)
    \/ \E id \in Ids :
          Len(reqs) < MaxReqs - 1 /\ Begin("checkin", [id |-> id, checkedIn |-> TRUE])
    \/ \E k \in 1..MaxReqs : Finish(k)

SpecCheckinRace == Init /\ [][NextCheckinRace]_vars

----------------------------------------------------------------------------
(* C22 *)

\* C22: a POST /checkin that is answered 200 leaves the store as the file it read with
\* the first record of its id changed: every other record is as the handler read it,
\* whatever was written since (the last writer wins on the whole file).  Hence the
\* interleaving of the witness.
C22_LastWriterWins ==
    [][\A k \in 1..MaxReqs :
          (/\ k <= Len(reqs)
           /\ reqs[k].kind = "checkin"
           /\ Finish(k)
           /\ reqs'[k].status = 200) =>
             LET index == FindIndex(reqs[k].local, reqs[k].args.id)
             IN /\ Len(attendees') = Len(reqs[k].local)
                /\ attendees'[index].id = reqs[k].args.id
                /\ attendees'[index].checkedIn = reqs[k].args.checkedIn
                /\ \A n \in 1..Len(attendees') :
                      n # index => attendees'[n] = reqs[k].local[n]]_vars

\* two check-ins of two different attendees, each read while the other attendee was not
\* checked in, were both answered 200, and the store shows only one of the two checked in
C22_Witness ==
    \E j, k \in 1..Len(reqs) : \E m, n \in 1..Len(attendees) :
        /\ reqs[j].kind = "checkin" /\ Acked(reqs[j]) /\ reqs[j].args.checkedIn
        /\ reqs[k].kind = "checkin" /\ Acked(reqs[k]) /\ reqs[k].args.checkedIn
        /\ Len(reqs) = 2
        /\ attendees[m].id = reqs[j].args.id
        /\ attendees[n].id = reqs[k].args.id
        /\ attendees[m].id # attendees[n].id
        /\ ~reqs[j].local[n].checkedIn
        /\ ~reqs[k].local[m].checkedIn
        /\ attendees[m].checkedIn # attendees[n].checkedIn

----------------------------------------------------------------------------
(* C23 *)

\* C23: handleScanResult looks a payload up under the text after "hemisphere:" when the
\* trimmed payload starts with that prefix (in any case), and under the whole trimmed
\* payload otherwise: the scan resolves exactly when an attendee has that id, and the
\* entry it logs carries that id.  So "x:<id>" does not resolve to attendee <id>.
C23_LookupIdentifier ==
    [][\A raw \in Payloads :
          ScanStep(raw) =>
             LET trimmed == Trim(raw)
                 expected == IF StartsWith(Lower(trimmed), HEMI)
                             THEN SubSeq(trimmed, Len(HEMI) + 1, Len(trimmed))
                             ELSE trimmed
             IN /\ scanner'.scanState = "found" <=> IdKnown(attendees, expected)
                /\ scanner'.scanState = "found" =>
                      scanLog'[Len(scanLog')].attendeeId = expected]_vars

----------------------------------------------------------------------------
(* C24 *)

\* C24: a manual attempt whose trimmed term is contained in the lower-cased "first last"
\* name of some attendee checks in, and logs, the first such attendee in the order of
\* the stored array.
C24_FirstInStoreOrder ==
    [][\A term \in Terms :
          (ManualStep(term) /\ NameKnown(attendees, term)) =>
             LET first == CHOOSE i \in 1..Len(attendees) :
                             /\ ManualMatches(attendees[i], Trim(term))
                             /\ \A j \in 1..(i - 1) :
                                   ~ManualMatches(attendees[j], Trim(term))
             IN /\ attendees'[first].checkedIn
                /\ scanLog'[Len(scanLog')].attendeeId = attendees[first].id
                /\ scanLog'[Len(scanLog')].attendeeName = DisplayName(attendees[first])]_vars

----------------------------------------------------------------------------
(* The scanner page frame by frame: one badge in front of the camera *)

NextFrames ==
    \/ Register(<<"A">>, <<"B">>, <<"a">>)
    \/ \E who \in {"live", "stale"}, sees \in BOOLEAN : DrawFrame(who, sees)
    \/ \E who \in {"live", "stale"} : DetectNothing(who)
    \/ \E who \in {"live", "stale"} : DetectCode(who, QrValue(NumStr(1)))
    \/ PauseScanner
    \/ \E again \in BOOLEAN : ArmScanner(again)

SpecFrames == Init /\ [][NextFrames]_vars

----------------------------------------------------------------------------
(* C25 *)

\* C25: once a frame loop has handed a code to handleScanResult, handleScanResult is not
\* called again before scanning is armed again (handleScanAgain or Resume Scanner).
C25_OneCallPerArming ==
    [][\A who \in {"live", "stale"} :
          DetectCode(who, QrValue(NumStr(1))) => ~frames.handed]_vars

----------------------------------------------------------------------------
(* One scanner station stepped request by request, the attendee file failing under it *)

NextStation ==
    \/ Tick
    \/ \E r \in AdminRegistrations : Register(r.firstName, r.lastName, r.email)
    \/ \E raw \in Payloads : StationScan("s1", raw)
    \/ \E term \in AdminTerms : StationManual("s1", term)
    \/ StationCheckin("s1")
    \/ StationLog("s1")
    \/ Corrupt("attendees")

SpecStation == Init /\ [][NextStation]_vars

----------------------------------------------------------------------------
(* C26 *)

\* C26: on the first-time path of a station's handler, the step that posts to /checkin
\* leaves the scan log as it was and, answered 200, leaves the attendee checked in; and
\* the step that posts the scan-log entry of a first-time attempt is taken only after
\* the attempt's POST /checkin was answered.
C26_CheckinThenLog ==
    [][\A s \in Stations :
          /\ StationCheckin(s) =>
                /\ scanLog' = scanLog
                /\ station'[s].pc = "posted"
                /\ calls'[1].status = 200 =>
                      attendees'[FindIndex(attendees', station[s].id)].checkedIn
          /\ (StationLog(s) /\ ~station[s].found.checkedIn) =>
                station[s].pc = "posted"]_vars

\* a station stopped between its two requests: its attendee is checked in, its POST
\* /checkin was answered 200, and the scan log is empty
C26_Witness ==
    \E s \in Stations :
        /\ station[s].pc = "posted"
        /\ calls = <<Call("POST /checkin", station[s].method, TRUE, "", 200)>>
        /\ attendees[FindIndex(attendees, station[s].id)].checkedIn
        /\ scanLog = <<>>

----------------------------------------------------------------------------
(* C29 *)

\* C29: a station whose POST /checkin has just been answered 404 or 500 appends no
\* scan-log entry for that attempt.
C29_LogOnlyAfterSuccess ==
    [][\A s \in Stations : \A status \in {404, 500} :
          (/\ station[s].pc = "posted"
           /\ calls = <<Call("POST /checkin", station[s].method, TRUE, "", status)>>
           /\ StationLog(s)) => scanLog' = scanLog]_vars

----------------------------------------------------------------------------
(* C27 *)

----------------------------------------------------------------------------
(* The operator's table beside the registration page and another client of
   POST /api/checkin, the attendee file failing under them *)

NextOperator ==
    \/ Tick
    \/ \E r \in AdminRegistrations : Register(r.firstName, r.lastName, r.email)
    \/ \E id \in Ids : ApiCheckin(id, TRUE)
    \/ LoadAttendees
    \/ \E i \in 1..MaxAttendees : HandleCheckStatus(i)
    \/ Corrupt("attendees")
    \/ Remove("attendees")

SpecOperator == Init /\ [][NextOperator]_vars

----------------------------------------------------------------------------
(* C28 *)

\* the two lists hold the same records, each as many times
SameRecords(rows, stored) ==
    /\ Len(rows) = Len(stored)
    /\ \A n \in 1..Len(stored) :
          Cardinality({k \in 1..Len(rows) : rows[k] = stored[n]})
             = Cardinality({k \in 1..Len(stored) : stored[k] = stored[n]})

\* C28: when handleCheckStatus finishes, it has posted to /api/checkin once;
\* checkingInId is null; if the request was answered 200 every row of that id equals
\* the attendee the server stored and the other rows are as they were; if the request
\* failed and the reload was answered 200 the table holds exactly the records of the
\* store.
C28_CheckStatusOutcome ==
    [][\A i \in 1..MaxAttendees :
          HandleCheckStatus(i) =>
             LET id == admin.attendees[i].id
                 index == FindIndex(attendees', id)
             IN /\ Cardinality({k \in 1..Len(calls') : calls'[k].ep = "POST /checkin"}) = 1
                /\ calls'[1].ep = "POST /checkin"
                /\ admin'.checkingInId = <<>>
                /\ calls'[1].status = 200 =>
                      /\ Len(admin'.attendees) = Len(admin.attendees)
                      /\ \A k \in 1..Len(admin.attendees) :
                            admin'.attendees[k] = IF admin.attendees[k].id = id
                                                  THEN attendees'[index]
                                                  ELSE admin.attendees[k]
                /\ (calls'[1].status # 200 /\ Len(calls') = 2 /\ calls'[2].status = 200) =>
                      SameRecords(admin'.attendees,
                                  IF files'.attendees = "ok" THEN attendees' ELSE <<>>)]_vars

\* the operator clicked a row of an attendee whose file had been deleted: the request
\* failed, the reload succeeded and the table is empty like the store
C28_Witness ==
    /\ Len(calls) = 2
    /\ calls[1] = Call("POST /checkin", "checkStatus", TRUE, "", 500)
    /\ calls[2] = Call("GET /attendees", "admin", FALSE, "", 200)
    /\ admin.attendees = <<>> /\ admin.checkingInId = <<>> /\ admin.error = "checkin"

----------------------------------------------------------------------------
(* The three routes that write attendees.json, requests served one after the other *)

\* payloads of PATCH: a field the route copies, and two it does not
StorePatches ==
    {[id |-> id, payload |-> p] :
        id \in Ids, p \in {[firstName |-> <<"C">>], [checkedIn |-> TRUE],
                           [checkedIn |-> FALSE]}}

NextStore ==
    \/ Tick
    \/ \E r \in AdminRegistrations : Register(r.firstName, r.lastName, r.email)
    \/ \E id \in Ids, checkedIn \in BOOLEAN : ApiCheckin(id, checkedIn)
    \/ \E b \in StorePatches : PatchAttendee(b)

SpecStore == Init /\ [][NextStore]_vars

----------------------------------------------------------------------------
(* C30 *)

\* C30: in every state of the attendee store reached by POST /register, POST /checkin
\* and PATCH /attendees/{id} requests served one at a time, an attendee has a
\* checkedInAt exactly when its checkedIn is true.
C30_StampIffCheckedIn ==
    \A n \in 1..Len(attendees) :
        (attendees[n].checkedInAt # NoTime) <=> attendees[n].checkedIn

\* a PATCH has just been answered 200 on a store holding an attendee who is checked in
\* and an attendee who is not
C30_Witness ==
    /\ calls = <<Call("PATCH /attendees/{id}", "api", FALSE, "", 200)>>
    /\ \E n, m \in 1..Len(attendees) :
          /\ attendees[n].checkedIn /\ attendees[n].checkedInAt = MaxTime
          /\ ~attendees[m].checkedIn /\ attendees[m].checkedInAt = NoTime

====
